---- MODULE Spec2Model ----
(***************************************************************************)
(* go-clamd: one command execution of the clamd client (clamd.go) on its   *)
(* own connection (conn.go).  The model follows one command from the dial  *)
(* to the release of the socket: the command's writes, the background      *)
(* reader goroutine of readResponse, the closer goroutine that waits on    *)
(* the WaitGroup, the consumer of the reply channel, and the daemon on the *)
(* other end of the socket.                                                *)
(*                                                                         *)
(* Text is a sequence of one-character strings; "LF", "CR" and "TAB" stand *)
(* for the bytes 0x0A, 0x0D and 0x09.  Binary data is a sequence of bytes  *)
(* 0..255.                                                                 *)
(***************************************************************************)
EXTENDS Integers, Sequences, FiniteSets, TLC

(***************************************************************************)
(* Bounds of the model.                                                    *)
(***************************************************************************)
\* longest reply script of the daemon, in socket writes
MaxWrites == 2
\* most data-carrying reads the stream source serves before it ends
MaxReads == 2
\* most socket writes of one command execution that fail
MaxFail == 1

(***************************************************************************)
(* Program constants.                                                      *)
(***************************************************************************)
CHUNK_SIZE == 1024

(***************************************************************************)
(* Text helpers: Go's strings package as the code uses it.                 *)
(***************************************************************************)
LF == "LF"
CR == "CR"
TAB == "TAB"
SP == " "

\* the cutset of strings.TrimRight(line, " \t\r\n")
LineCutset == {SP, TAB, CR, LF}

RECURSIVE TrimRightSet(_, _)
TrimRightSet(s, cut) ==
    IF s # <<>> /\ s[Len(s)] \in cut
    THEN TrimRightSet(SubSeq(s, 1, Len(s) - 1), cut)
    ELSE s

RECURSIVE TrimLeftSet(_, _)
TrimLeftSet(s, cut) ==
    IF s # <<>> /\ s[1] \in cut
    THEN TrimLeftSet(SubSeq(s, 2, Len(s)), cut)
    ELSE s

\* a variant that trims one trailing line terminator only
TrimLineNewlineOnly(line) ==
    IF line # <<>> /\ line[Len(line)] = LF
    THEN SubSeq(line, 1, Len(line) - 1)
    ELSE line

\* line = strings.TrimRight(line, " \t\r\n")
TrimLine(line) == TrimRightSet(line, LineCutset)

\* strings.Trim(s, " ")
TrimSpaces(s) == TrimLeftSet(TrimRightSet(s, {SP}), {SP})

\* strings.HasPrefix(s, p)
HasPrefix(s, p) == Len(s) >= Len(p) /\ SubSeq(s, 1, Len(p)) = p

\* s[k:], defined when k <= len(s); Go panics otherwise
SliceFrom(s, k) == SubSeq(s, k + 1, Len(s))

\* position of the first LF of a byte sequence, 0 when there is none
RECURSIVE IndexLF(_, _)
IndexLF(s, i) ==
    IF i > Len(s) THEN 0
    ELSE IF s[i] = LF THEN i
    ELSE IndexLF(s, i + 1)

HasLine(s) == IndexLF(s, 1) # 0

\* the concatenation of a sequence of sequences
RECURSIVE Flatten(_)
Flatten(ss) == IF ss = <<>> THEN <<>> ELSE Head(ss) \o Flatten(Tail(ss))

\* all sequences over S of length at most n
SeqsUpTo(S, n) == UNION {[1..k -> S] : k \in 0..n}

Min(a, b) == IF a <= b THEN a ELSE b

(***************************************************************************)
(* Literals of the code.                                                   *)
(***************************************************************************)
sPONG == <<"P", "O", "N", "G">>
sRELOADING == <<"R", "E", "L", "O", "A", "D", "I", "N", "G">>
sPOOLS == <<"P", "O", "O", "L", "S">>
sSTATE == <<"S", "T", "A", "T", "E">>
sTHREADS == <<"T", "H", "R", "E", "A", "D", "S">>
sQUEUE == <<"Q", "U", "E", "U", "E">>
sMEMSTATS == <<"M", "E", "M", "S", "T", "A", "T", "S">>
sEND == <<"E", "N", "D">>
\* "Invalid response, got "
sInvalid ==
    <<"I", "n", "v", "a", "l", "i", "d", SP, "r", "e", "s", "p", "o", "n",
      "s", "e", ",", SP, "g", "o", "t", SP>>

(***************************************************************************)
(* The commands of the client.  Every command but ScanStream goes through  *)
(* simpleCommand; the scan commands take a path.                           *)
(***************************************************************************)
SimpleCommands ==
    {"Ping", "Version", "Stats", "Reload", "Shutdown", "ScanFile",
     "RawScanFile", "MultiScanFile", "ContScanFile", "AllMatchScanFile"}

Commands == SimpleCommands \cup {"ScanStream"}

\* the commands that hand the reply channel to their caller
PassThrough ==
    {"Version", "ScanFile", "RawScanFile", "MultiScanFile", "ContScanFile",
     "AllMatchScanFile", "ScanStream"}

\* the path argument of the scan commands
ScanPath == <<"/", "f">>

\* the command string a command passes to simpleCommand / sendCommand
CommandText(c) ==
    CASE c = "Ping" -> <<"P", "I", "N", "G">>
      [] c = "Version" -> <<"V", "E", "R", "S", "I", "O", "N">>
      [] c = "Stats" -> <<"S", "T", "A", "T", "S">>
      [] c = "Reload" -> <<"R", "E", "L", "O", "A", "D">>
      [] c = "Shutdown" -> <<"S", "H", "U", "T", "D", "O", "W", "N">>
      [] c = "ScanFile" -> <<"S", "C", "A", "N", SP>> \o ScanPath
      [] c = "RawScanFile" -> <<"R", "A", "W", "S", "C", "A", "N", SP>> \o ScanPath
      [] c = "MultiScanFile" ->
            <<"M", "U", "L", "T", "I", "S", "C", "A", "N", SP>> \o ScanPath
      [] c = "ContScanFile" ->
            <<"C", "O", "N", "T", "S", "C", "A", "N", SP>> \o ScanPath
      [] c = "AllMatchScanFile" ->
            <<"A", "L", "L", "M", "A", "T", "C", "H", "S", "C", "A", "N", SP>>
                \o ScanPath
      [] c = "ScanStream" -> <<"I", "N", "S", "T", "R", "E", "A", "M">>

\* commandBytes := []byte(fmt.Sprintf("n%s\n", command))
CommandFrame(command) == <<"n">> \o command \o <<LF>>

(***************************************************************************)
(* What the daemon may write: a reply script is a sequence of socket       *)
(* writes, each a piece of text.  A piece need not be a whole line.        *)
(***************************************************************************)
Line(t) == t \o <<LF>>

sERR == <<"E", "R", "R">>
sPools2 == sPOOLS \o <<SP, "2">>
sPoolsColon1 == sPOOLS \o <<":", SP, "1">>
sStateValid == sSTATE \o <<SP, "V", "A", "L", "I", "D">>
sStateExit == sSTATE \o <<SP, "E", "X", "I", "T">>
sThreadsLive2 == sTHREADS \o <<SP, "l", "i", "v", "e", SP, "2">>
sQueue0 == sQUEUE \o <<SP, "0">>
sMemstatsHeap == sMEMSTATS \o <<SP, "h", "e", "a", "p", SP, "1", "0", "M">>
sJunk == <<"j", "u", "n", "k">>

PingPieces ==
    {Line(sPONG), sPONG \o <<SP, CR, LF>>, Line(sERR), <<LF>>,
     <<"P", "O">>, <<"N", "G", LF>>, sPONG}

ReloadPieces == {Line(sRELOADING), Line(sERR), sRELOADING}

StatsPieces ==
    {Line(sPools2), Line(sPoolsColon1), Line(sPOOLS), Line(sStateValid),
     Line(sStateExit), Line(sThreadsLive2), Line(sQueue0),
     Line(sMemstatsHeap), Line(sEND), Line(sJunk)}

RawPieces == {Line(<<"o", "k">>), <<"a", SP, TAB, CR, LF>>, <<"t">>}

StreamPieces == {<<"s", SP, "F", "O", "U", "N", "D", CR, LF>>}

\* the reply of the daemon's documentation: one line per key, then END
StatsExample ==
    <<Line(sPools2), Line(sStateValid), Line(sThreadsLive2), Line(sQueue0),
      Line(sMemstatsHeap), Line(sEND)>>

ReplyPieces(c) ==
    CASE c = "Ping" -> PingPieces
      [] c = "Reload" -> ReloadPieces
      [] c = "Stats" -> StatsPieces
      [] c = "ScanStream" -> StreamPieces
      [] OTHER -> RawPieces

ReplyScripts(c) ==
    SeqsUpTo(ReplyPieces(c), MaxWrites)
        \cup (IF c = "Stats" THEN {StatsExample} ELSE {})

\* how the daemon's side of the socket ends: a clean close or a read error
Endings == {"EOF", "error"}

(***************************************************************************)
(* The io.Reader handed to ScanStream: the data it holds.  BigSource holds *)
(* more than one full chunk.                                               *)
(***************************************************************************)
BigSource == [i \in 1..(CHUNK_SIZE + 1) |-> i % 256]

Sources == {<<>>, <<7>>, BigSource}

\* the byte counts a Read of the source may return when it holds n bytes
ReadCounts(n) == {k \in {0, 1, CHUNK_SIZE} : k <= Min(n, CHUNK_SIZE)}

(***************************************************************************)
(* The endpoints a caller may name: the path of a local domain socket or a *)
(* host:port pair.                                                         *)
(***************************************************************************)
UnixAddress == "/tmp/clamd.socket"

TcpAddress == "127.0.0.1:3310"

Addresses == {UnixAddress, TcpAddress}

(***************************************************************************)
(* State.                                                                  *)
(***************************************************************************)
VARIABLES
    cmd,        \* the command being executed
    address,    \* Clamd.address: the endpoint the caller gave to NewClamd
    pc,         \* where the command function (and then its caller) stands
    network,    \* the network the connection was dialled on, "" before
    connState,  \* "none", "open" or "closed"
    closeCount, \* calls of conn.Close
    wlog,       \* the socket writes of the command, in order:
                \* [op, bytes, ok]
    src,        \* ScanStream: the bytes the source still holds
    reads,      \* ScanStream: data-carrying reads served so far
    srclog,     \* ScanStream: the results of r.Read, in order: [data, err]
    buf,        \* ScanStream: buf[:nr] of the last read
    script,     \* daemon: the writes it has still to make
    ending,     \* daemon: how its side ends
    remote,     \* daemon side of the socket: "open", "EOF" or "error"
    written,    \* every byte the daemon wrote, in order
    sock,       \* bytes the daemon wrote that the reader has not read yet
    rpc,        \* reader goroutine: "idle", "read", "send", "closeCh",
                \* "wgDone" or "exit"
    rline,      \* reader goroutine: the line of a pending ch <- line
    rerr,       \* reader goroutine: the error that ended it, "" before
    chClosed,   \* close(ch) has run
    wg,         \* the WaitGroup counter
    cpc,        \* closer goroutine: "idle", "wait", "close" or "exit"
    recvd,      \* the lines received from ch, in order
    sawClosed,  \* the consumer has received from the closed channel
    stats,      \* Stats: the record under construction
    result      \* what the command returned: [kind, msg]

vars ==
    <<cmd, address, pc, network, connState, closeCount, wlog, src, reads, srclog,
      buf, script, ending, remote, written, sock, rpc, rline, rerr,
      chClosed, wg, cpc, recvd, sawClosed, stats, result>>

connVars == <<network, connState, closeCount>>
streamVars == <<src, reads, srclog, buf>>
daemonVars == <<script, ending, remote, written>>
readerVars == <<rpc, rline, rerr, chClosed, wg>>
consumerVars == <<recvd, sawClosed, stats>>

\* stats := &Stats{}
EmptyStats ==
    [Pools |-> <<>>, State |-> <<>>, Threads |-> <<>>, Memstats |-> <<>>,
     Queue |-> <<>>]

NoResult == [kind |-> "none", msg |-> <<>>]
\* a nil error (with the channel or the record, where there is one)
Success == [kind |-> "ok", msg |-> <<>>]
\* the error of net.Dial or conn.Write, returned unchanged
IOError(what) == [kind |-> what, msg |-> <<>>]

Init ==
    /\ cmd \in Commands
    /\ address \in Addresses
    /\ pc = "dial"
    /\ network = ""
    /\ connState = "none"
    /\ closeCount = 0
    /\ wlog = <<>>
    /\ src \in (IF cmd = "ScanStream" THEN Sources ELSE {<<>>})
    /\ reads = 0
    /\ srclog = <<>>
    /\ buf = <<>>
    /\ script \in ReplyScripts(cmd)
    /\ ending \in Endings
    /\ remote = "open"
    /\ written = <<>>
    /\ sock = <<>>
    /\ rpc = "idle"
    /\ rline = <<>>
    /\ rerr = ""
    /\ chClosed = FALSE
    /\ wg = 0
    /\ cpc = "idle"
    /\ recvd = <<>>
    /\ sawClosed = FALSE
    /\ stats = EmptyStats
    /\ result = NoResult

(***************************************************************************)
(* The socket, as the command writes to it.                                *)
(***************************************************************************)
\* the writes that failed so far
NFail(log) == Cardinality({i \in 1..Len(log) : ~log[i].ok})

\* the outcomes a socket write may have now: it succeeds or it fails
WriteOutcomes(log, n) == {oks \in [1..n -> BOOLEAN] :
    NFail(log) + Cardinality({i \in 1..n : ~oks[i]}) <= MaxFail}

WriteRec(op, bytes, ok) == [op |-> op, bytes |-> bytes, ok |-> ok]

\* newCLAMDUnixConn: net.Dial("unix", address), whatever the address
DialNetwork(a) == "unix"

\* net.Dial fails: the command returns the error
DialFail ==
    /\ pc = "dial"
    /\ pc' = "returned"
    /\ result' = IOError("dial")
    /\ UNCHANGED <<cmd, address, connVars, wlog, streamVars, daemonVars, sock,
                   readerVars, cpc, consumerVars>>

\* net.Dial succeeds: simpleCommand and ScanStream go on to sendCommand
DialOk ==
    /\ pc = "dial"
    /\ network' = DialNetwork(address)
    /\ connState' = "open"
    /\ pc' = "sendCommand"
    /\ UNCHANGED <<cmd, address, closeCount, wlog, streamVars, daemonVars, sock,
                   readerVars, cpc, consumerVars, result>>

\* simpleCommand: err = conn.sendCommand(command); if err != nil return
SimpleSendCommand ==
    /\ pc = "sendCommand"
    /\ cmd \in SimpleCommands
    /\ \E oks \in WriteOutcomes(wlog, 1) :
        /\ wlog' = Append(wlog,
              WriteRec("sendCommand", CommandFrame(CommandText(cmd)), oks[1]))
        /\ IF oks[1]
           THEN pc' = "readResponse" /\ result' = result
           ELSE pc' = "returned" /\ result' = IOError("write")
    /\ UNCHANGED <<cmd, address, connVars, streamVars, daemonVars, sock, readerVars,
                   cpc, consumerVars>>

\* wg.Add(1)
WgAdd(w) == w + 1

\* wg.Wait() returns
WaitReturns(w) == w = 0

\* readResponse: wg.Add(1), make the channel, start the reader goroutine
ReadResponse ==
    /\ pc = "readResponse"
    /\ wg' = WgAdd(wg)
    /\ rpc' = "read"
    /\ pc' = "goCloser"
    /\ UNCHANGED <<cmd, address, connVars, wlog, streamVars, daemonVars, sock, rline,
                   rerr, chClosed, cpc, consumerVars, result>>

\* a ScanStream that writes its terminator once the reader is running
AfterChannelThenEOF(c) ==
    CASE c \in {"Ping", "Reload"} -> "recv"
      [] c = "Stats" -> "range"
      [] c = "ScanStream" -> "sendEOF"
      [] OTHER -> "returned"

\* where a command stands once simpleCommand / ScanStream has the channel
AfterChannel(c) ==
    CASE c \in {"Ping", "Reload"} -> "recv"
      [] c = "Stats" -> "range"
      [] OTHER -> "returned"

\* go func() { wg.Wait(); conn.Close() }(), then the return of the channel.
\* Shutdown drops the channel and returns the nil error; the pass-through
\* commands and ScanStream return the channel to their caller.
GoCloser ==
    /\ pc = "goCloser"
    /\ cpc' = "wait"
    /\ pc' = AfterChannel(cmd)
    /\ result' = IF AfterChannel(cmd) = "returned" THEN Success ELSE result
    /\ UNCHANGED <<cmd, address, connVars, wlog, streamVars, daemonVars, sock,
                   readerVars, consumerVars>>

(***************************************************************************)
(* The daemon.  It replies once the command has made its last write, and   *)
(* then its side of the socket ends.                                       *)
(***************************************************************************)
RequestMade ==
    /\ connState = "open"
    /\ pc \in {"readResponse", "goCloser", "recv", "range", "returned", "panic"}
    /\ result.kind \notin {"dial", "write"}

DaemonWrite ==
    /\ RequestMade
    /\ remote = "open"
    /\ script # <<>>
    /\ sock' = sock \o Head(script)
    /\ written' = written \o Head(script)
    /\ script' = Tail(script)
    /\ UNCHANGED <<cmd, address, pc, connVars, wlog, streamVars, ending, remote,
                   readerVars, cpc, consumerVars, result>>

DaemonEnd ==
    /\ RequestMade
    /\ remote = "open"
    /\ script = <<>>
    /\ remote' = ending
    /\ UNCHANGED <<cmd, address, pc, connVars, wlog, streamVars, script, ending,
                   written, sock, readerVars, cpc, consumerVars, result>>

(***************************************************************************)
(* The reader goroutine of readResponse.                                   *)
(***************************************************************************)
\* what the reader publishes for the line ReadString returned
PublishedLine(raw) == TrimLine(raw)

\* line, err := reader.ReadString('\n') returns a line; the reader trims it
\* and goes on to ch <- line
ReaderReadLine ==
    /\ rpc = "read"
    /\ HasLine(sock)
    /\ LET i == IndexLF(sock, 1) IN
        /\ rline' = PublishedLine(SubSeq(sock, 1, i))
        /\ sock' = SubSeq(sock, i + 1, Len(sock))
    /\ rpc' = "send"
    /\ UNCHANGED <<cmd, address, pc, connVars, wlog, streamVars, daemonVars, rerr,
                   chClosed, wg, cpc, consumerVars, result>>

\* a reader that publishes the bytes ReadString returned with its error
ReaderReadEndPublishesTail ==
    /\ rpc = "read"
    /\ \/ remote = "EOF" /\ ~HasLine(sock)
       \/ remote = "error"
    /\ IF ~HasLine(sock) /\ sock # <<>>
       THEN /\ rline' = PublishedLine(sock)
            /\ sock' = <<>>
            /\ rpc' = "send"
            /\ rerr' = rerr
       ELSE /\ rline' = rline
            /\ sock' = sock
            /\ rpc' = "closeCh"
            /\ rerr' = remote
    /\ UNCHANGED <<cmd, address, pc, connVars, wlog, streamVars, daemonVars,
                   chClosed, wg, cpc, consumerVars, result>>

\* ReadString returns io.EOF or another error: the reader returns, whatever
\* bytes came without a newline are dropped.  A failing socket may fail a
\* read while lines are still buffered.
ReaderReadEnd ==
    /\ rpc = "read"
    /\ \/ remote = "EOF" /\ ~HasLine(sock)
       \/ remote = "error"
    /\ rerr' = remote
    /\ rpc' = "closeCh"
    /\ UNCHANGED <<cmd, address, pc, connVars, wlog, streamVars, daemonVars, sock,
                   rline, chClosed, wg, cpc, consumerVars, result>>

\* a reader that returns without close(ch)
ReaderLeavesChOpen ==
    /\ rpc = "closeCh"
    /\ rpc' = "wgDone"
    /\ UNCHANGED <<cmd, address, pc, connVars, wlog, streamVars, daemonVars, sock,
                   rline, rerr, chClosed, wg, cpc, consumerVars, result>>

\* the deferred close(ch)
ReaderCloseCh ==
    /\ rpc = "closeCh"
    /\ chClosed' = TRUE
    /\ rpc' = "wgDone"
    /\ UNCHANGED <<cmd, address, pc, connVars, wlog, streamVars, daemonVars, sock,
                   rline, rerr, wg, cpc, consumerVars, result>>

\* a reader that returns without wg.Done()
ReaderExitNoDone ==
    /\ rpc = "wgDone"
    /\ rpc' = "exit"
    /\ UNCHANGED <<cmd, address, pc, connVars, wlog, streamVars, daemonVars, sock,
                   rline, rerr, chClosed, wg, cpc, consumerVars, result>>

\* the deferred wg.Done()
ReaderWgDone ==
    /\ rpc = "wgDone"
    /\ wg' = wg - 1
    /\ rpc' = "exit"
    /\ UNCHANGED <<cmd, address, pc, connVars, wlog, streamVars, daemonVars, sock,
                   rline, rerr, chClosed, cpc, consumerVars, result>>

(***************************************************************************)
(* The closer goroutine: wg.Wait(), then conn.Close().                     *)
(***************************************************************************)
\* a closer that does not wait
CloserWaitNoWait ==
    /\ cpc = "wait"
    /\ cpc' = "close"
    /\ UNCHANGED <<cmd, address, pc, connVars, wlog, streamVars, daemonVars, sock,
                   readerVars, consumerVars, result>>

CloserWait ==
    /\ cpc = "wait"
    /\ WaitReturns(wg)
    /\ cpc' = "close"
    /\ UNCHANGED <<cmd, address, pc, connVars, wlog, streamVars, daemonVars, sock,
                   readerVars, consumerVars, result>>

CloserClose ==
    /\ cpc = "close"
    /\ connState' = "closed"
    /\ closeCount' = closeCount + 1
    /\ cpc' = "exit"
    /\ UNCHANGED <<cmd, address, pc, network, wlog, streamVars, daemonVars, sock,
                   readerVars, consumerVars, result>>

(***************************************************************************)
(* The consumers of the reply channel.  A receive from ch either meets the *)
(* reader's pending ch <- line or, once close(ch) has run, yields the zero *)
(* value.                                                                  *)
(***************************************************************************)
\* errors.New(fmt.Sprintf("Invalid response, got %s.", s))
InvalidResponse(s) == [kind |-> "invalid", msg |-> sInvalid \o s \o <<".">>]

\* a check that accepts whatever starts with the expected token
ExpectReplyPrefix(s, token) ==
    IF HasPrefix(s, token) THEN Success ELSE InvalidResponse(s)

\* switch s { case <token>: return nil; default: return errors.New(...) }
ExpectReply(s, token) == IF s = token THEN Success ELSE InvalidResponse(s)

\* Ping: s := <-ch receives a line
PingRecvLine ==
    /\ cmd = "Ping"
    /\ pc = "recv"
    /\ rpc = "send"
    /\ recvd' = Append(recvd, rline)
    /\ rpc' = "read"
    /\ result' = ExpectReply(rline, sPONG)
    /\ pc' = "returned"
    /\ UNCHANGED <<cmd, address, connVars, wlog, streamVars, daemonVars, sock, rline,
                   rerr, chClosed, wg, cpc, sawClosed, stats>>

\* Ping: s := <-ch on the closed channel receives ""
PingRecvClosed ==
    /\ cmd = "Ping"
    /\ pc = "recv"
    /\ chClosed
    /\ sawClosed' = TRUE
    /\ result' = ExpectReply(<<>>, sPONG)
    /\ pc' = "returned"
    /\ UNCHANGED <<cmd, address, connVars, wlog, streamVars, daemonVars, sock,
                   readerVars, cpc, recvd, stats>>

\* Reload: s := <-ch receives a line
ReloadRecvLine ==
    /\ cmd = "Reload"
    /\ pc = "recv"
    /\ rpc = "send"
    /\ recvd' = Append(recvd, rline)
    /\ rpc' = "read"
    /\ result' = ExpectReply(rline, sRELOADING)
    /\ pc' = "returned"
    /\ UNCHANGED <<cmd, address, connVars, wlog, streamVars, daemonVars, sock, rline,
                   rerr, chClosed, wg, cpc, sawClosed, stats>>

\* Reload: s := <-ch on the closed channel receives ""
ReloadRecvClosed ==
    /\ cmd = "Reload"
    /\ pc = "recv"
    /\ chClosed
    /\ sawClosed' = TRUE
    /\ result' = ExpectReply(<<>>, sRELOADING)
    /\ pc' = "returned"
    /\ UNCHANGED <<cmd, address, connVars, wlog, streamVars, daemonVars, sock,
                   readerVars, cpc, recvd, stats>>

\* s[6:] of a line that has the prefix POOLS and nothing more is out of
\* range: the slice expression panics
StatsPanics(s) == HasPrefix(s, sPOOLS) /\ Len(s) < 6

\* a classification that keeps the text after the five-character prefix
ClassifyAfterPrefix(st, s) ==
    IF HasPrefix(s, sPOOLS) THEN [st EXCEPT !.Pools = TrimSpaces(SliceFrom(s, 5))]
    ELSE IF HasPrefix(s, sSTATE) THEN [st EXCEPT !.State = s]
    ELSE IF HasPrefix(s, sTHREADS) THEN [st EXCEPT !.Threads = s]
    ELSE IF HasPrefix(s, sQUEUE) THEN [st EXCEPT !.Queue = s]
    ELSE IF HasPrefix(s, sMEMSTATS) THEN [st EXCEPT !.Memstats = s]
    ELSE st

\* the body of Stats's range loop
Classify(st, s) ==
    IF HasPrefix(s, sPOOLS) THEN [st EXCEPT !.Pools = TrimSpaces(SliceFrom(s, 6))]
    ELSE IF HasPrefix(s, sSTATE) THEN [st EXCEPT !.State = s]
    ELSE IF HasPrefix(s, sTHREADS) THEN [st EXCEPT !.Threads = s]
    ELSE IF HasPrefix(s, sQUEUE) THEN [st EXCEPT !.Queue = s]
    ELSE IF HasPrefix(s, sMEMSTATS) THEN [st EXCEPT !.Memstats = s]
    ELSE IF HasPrefix(s, sEND) THEN st
    ELSE st

\* a loop that returns the record when it receives the END line
StatsRecvLineReturnsAtEnd ==
    /\ cmd = "Stats"
    /\ pc = "range"
    /\ rpc = "send"
    /\ recvd' = Append(recvd, rline)
    /\ rpc' = "read"
    /\ IF StatsPanics(rline)
       THEN pc' = "panic" /\ stats' = stats /\ result' = result
       ELSE IF HasPrefix(rline, sEND)
       THEN pc' = "returned" /\ stats' = stats /\ result' = Success
       ELSE pc' = "range" /\ stats' = Classify(stats, rline) /\ result' = result
    /\ UNCHANGED <<cmd, address, connVars, wlog, streamVars, daemonVars, sock, rline,
                   rerr, chClosed, wg, cpc, sawClosed>>

\* Stats: for s := range ch receives a line and classifies it
StatsRecvLine ==
    /\ cmd = "Stats"
    /\ pc = "range"
    /\ rpc = "send"
    /\ recvd' = Append(recvd, rline)
    /\ rpc' = "read"
    /\ IF StatsPanics(rline)
       THEN pc' = "panic" /\ stats' = stats
       ELSE pc' = "range" /\ stats' = Classify(stats, rline)
    /\ UNCHANGED <<cmd, address, connVars, wlog, streamVars, daemonVars, sock, rline,
                   rerr, chClosed, wg, cpc, sawClosed, result>>

\* Stats: the range loop ends on the closed channel; return stats, nil
StatsRangeEnd ==
    /\ cmd = "Stats"
    /\ pc = "range"
    /\ chClosed
    /\ sawClosed' = TRUE
    /\ result' = Success
    /\ pc' = "returned"
    /\ UNCHANGED <<cmd, address, connVars, wlog, streamVars, daemonVars, sock,
                   readerVars, cpc, recvd, stats>>

\* the caller of a pass-through command holds the channel
CallerHoldsChannel ==
    /\ cmd \in PassThrough
    /\ pc = "returned"
    /\ result = Success
    /\ ~sawClosed

\* the caller receives a line from the channel it was handed
CallerRecvLine ==
    /\ CallerHoldsChannel
    /\ rpc = "send"
    /\ recvd' = Append(recvd, rline)
    /\ rpc' = "read"
    /\ UNCHANGED <<cmd, address, pc, connVars, wlog, streamVars, daemonVars, sock,
                   rline, rerr, chClosed, wg, cpc, sawClosed, stats, result>>

\* the caller's receive finds the channel closed
CallerRecvClosed ==
    /\ CallerHoldsChannel
    /\ chClosed
    /\ sawClosed' = TRUE
    /\ UNCHANGED <<cmd, address, pc, connVars, wlog, streamVars, daemonVars, sock,
                   readerVars, cpc, recvd, stats, result>>

(***************************************************************************)
(* ScanStream: the upload.                                                 *)
(***************************************************************************)
\* byte(x): the low eight bits
Byte(x) == x % 256

\* The length of a chunk runs to 2^32 - 1, past the integers of the model
\* checker, so the header is computed on the two 16-bit halves of lenData,
\* lenData = hi * 65536 + lo: lenData >> 24 is hi >> 8, byte(lenData >> 16)
\* is byte(hi), byte(lenData >> 8) is byte(lo >> 8).

\* a header with the bytes in little-endian order
ChunkHeaderLittleEndian(hi, lo) ==
    <<Byte(lo), Byte(lo \div 256), Byte(hi), Byte(hi \div 256)>>

\* buf[0] = byte(lenData >> 24) ... buf[3] = byte(lenData >> 0)
ChunkHeaderOf(hi, lo) ==
    <<Byte(hi \div 256), Byte(hi), Byte(lo \div 256), Byte(lo)>>

\* the header sendChunk writes for len(data) = lenData
ChunkHeader(lenData) == ChunkHeaderOf(lenData \div 65536, lenData % 65536)

\* []byte{0, 0, 0, 0}
EOFFrame == <<0, 0, 0, 0>>

\* conn.sendCommand("INSTREAM"): the error is dropped
StreamSendCommand ==
    /\ pc = "sendCommand"
    /\ cmd = "ScanStream"
    /\ \E oks \in WriteOutcomes(wlog, 1) :
        wlog' = Append(wlog,
            WriteRec("sendCommand", CommandFrame(CommandText(cmd)), oks[1]))
    /\ pc' = "read"
    /\ UNCHANGED <<cmd, address, connVars, streamVars, daemonVars, sock, readerVars,
                   cpc, consumerVars, result>>

\* a loop that reads again after a read of zero bytes without error
AfterReadRetries(nr, err) ==
    IF err # "nil" THEN "sendEOF"
    ELSE IF nr = 0 THEN "read"
    ELSE "sendChunk"

\* a loop that sends whatever a read without error returned
AfterReadSendsAll(nr, err) ==
    IF err # "nil" THEN "sendEOF"
    ELSE "sendChunk"

\* if err != nil { break }; if nr == 0 { break }; conn.sendChunk(buf[:nr])
AfterRead(nr, err) ==
    IF err # "nil" THEN "sendEOF"
    ELSE IF nr = 0 THEN "sendEOF"
    ELSE "sendChunk"

\* nr, err := r.Read(buf): the source returns up to CHUNK_SIZE of the bytes
\* it holds, with or without an error
StreamRead ==
    /\ pc = "read"
    /\ \E nr \in ReadCounts(Len(src)), err \in {"nil", "EOF", "error"} :
        /\ nr > 0 => reads < MaxReads
        /\ reads' = IF nr > 0 THEN reads + 1 ELSE reads
        /\ buf' = SubSeq(src, 1, nr)
        /\ src' = SubSeq(src, nr + 1, Len(src))
        /\ srclog' = Append(srclog, [data |-> SubSeq(src, 1, nr), err |-> err])
        /\ pc' = AfterRead(nr, err)
    /\ UNCHANGED <<cmd, address, connVars, wlog, daemonVars, sock, readerVars, cpc,
                   consumerVars, result>>

\* conn.sendChunk(buf[:nr]): conn.Write(b) of the header, its error dropped,
\* then conn.Write(data); ScanStream drops sendChunk's error
StreamSendChunk ==
    /\ pc = "sendChunk"
    /\ \E oks \in WriteOutcomes(wlog, 2) :
        wlog' = wlog \o
            <<WriteRec("sendChunk", ChunkHeader(Len(buf)), oks[1]),
              WriteRec("sendChunk", buf, oks[2])>>
    /\ pc' = "read"
    /\ UNCHANGED <<cmd, address, connVars, streamVars, daemonVars, sock, readerVars,
                   cpc, consumerVars, result>>

\* a sendEOF whose error is dropped like those of the other writes
StreamSendEOFUnchecked ==
    /\ pc = "sendEOF"
    /\ \E oks \in WriteOutcomes(wlog, 1) :
        wlog' = Append(wlog, WriteRec("sendEOF", EOFFrame, oks[1]))
    /\ pc' = "readResponse"
    /\ UNCHANGED <<cmd, address, connVars, streamVars, daemonVars, sock, readerVars,
                   cpc, consumerVars, result>>

\* err = conn.sendEOF(); if err != nil { return nil, err }
StreamSendEOF ==
    /\ pc = "sendEOF"
    /\ \E oks \in WriteOutcomes(wlog, 1) :
        /\ wlog' = Append(wlog, WriteRec("sendEOF", EOFFrame, oks[1]))
        /\ IF oks[1]
           THEN pc' = "readResponse" /\ result' = result
           ELSE pc' = "returned" /\ result' = IOError("write")
    /\ UNCHANGED <<cmd, address, connVars, streamVars, daemonVars, sock, readerVars,
                   cpc, consumerVars>>

(***************************************************************************)
(* The specification.                                                      *)
(***************************************************************************)
Next ==
    \/ DialFail
    \/ DialOk
    \/ SimpleSendCommand
    \/ ReadResponse
    \/ GoCloser
    \/ DaemonWrite
    \/ DaemonEnd
    \/ ReaderReadLine
    \/ ReaderReadEnd
    \/ ReaderCloseCh
    \/ ReaderWgDone
    \/ CloserWait
    \/ CloserClose
    \/ PingRecvLine
    \/ PingRecvClosed
    \/ ReloadRecvLine
    \/ ReloadRecvClosed
    \/ StatsRecvLine
    \/ StatsRangeEnd
    \/ CallerRecvLine
    \/ CallerRecvClosed
    \/ StreamSendCommand
    \/ StreamRead
    \/ StreamSendChunk
    \/ StreamSendEOF

Spec == Init /\ [][Next]_vars

(***************************************************************************)
(* The goroutines are scheduled fairly, the daemon goes on with its reply  *)
(* and ends it, and whoever holds the channel keeps receiving from it.     *)
(***************************************************************************)
Command ==
    \/ DialFail
    \/ DialOk
    \/ SimpleSendCommand
    \/ ReadResponse
    \/ GoCloser
    \/ PingRecvLine
    \/ PingRecvClosed
    \/ ReloadRecvLine
    \/ ReloadRecvClosed
    \/ StatsRecvLine
    \/ StatsRangeEnd
    \/ StreamSendCommand
    \/ StreamRead
    \/ StreamSendChunk
    \/ StreamSendEOF

Reader == ReaderReadLine \/ ReaderReadEnd \/ ReaderCloseCh \/ ReaderWgDone

Closer == CloserWait \/ CloserClose

Daemon == DaemonWrite \/ DaemonEnd

Caller == CallerRecvLine \/ CallerRecvClosed

\* the replies and sources of the fair executions: a part of those of Init
FairPieces(c) ==
    CASE c = "Ping" -> {Line(sPONG), <<"P", "O">>}
      [] c = "Reload" -> {Line(sRELOADING)}
      [] c = "Stats" -> {Line(sPools2), Line(sPOOLS), Line(sJunk)}
      [] c = "ScanStream" -> StreamPieces
      [] OTHER -> {Line(<<"o", "k">>), <<"t">>}

InitFair ==
    /\ Init
    /\ Len(src) <= 1
    /\ \A i \in 1..Len(script) : script[i] \in FairPieces(cmd)

FairSpec ==
    /\ InitFair
    /\ [][Next]_vars
    /\ WF_vars(Command)
    /\ WF_vars(Reader)
    /\ WF_vars(Closer)
    /\ WF_vars(Daemon)
    /\ WF_vars(Caller)

(***************************************************************************)
(* Properties.                                                             *)
(***************************************************************************)
IsPrefix(s, t) == Len(s) <= Len(t) /\ SubSeq(t, 1, Len(s)) = s

\* text occurs in msg
Contains(msg, text) ==
    \E i \in 1..(Len(msg) + 1) :
        /\ i + Len(text) - 1 <= Len(msg)
        /\ SubSeq(msg, i, i + Len(text) - 1) = text

\* the newline-terminated lines of a byte sequence, each with its trailing
\* space, tab, CR and LF removed; what follows the last newline is no line
RECURSIVE TerminatedLines(_)
TerminatedLines(bytes) ==
    LET i == IndexLF(bytes, 1) IN
    IF i = 0 THEN <<>>
    ELSE <<TrimRightSet(SubSeq(bytes, 1, i), {SP, TAB, CR, LF})>>
            \o TerminatedLines(SubSeq(bytes, i + 1, Len(bytes)))

ReaderStarted == rpc # "idle"

ReaderDone == rpc = "exit"

\* C1: conn.Close runs only after the reader goroutine has called wg.Done:
\* whenever the closer is past wg.Wait, or the connection has been closed,
\* the reader has exited and the WaitGroup counter is back to zero.
C1_CloseAfterDrain ==
    (cpc \in {"close", "exit"} \/ closeCount > 0 \/ connState = "closed")
        => (ReaderDone /\ wg = 0 /\ chClosed)

\* the connection of a command that delivered lines has been closed
C1_Witness ==
    /\ connState = "closed"
    /\ closeCount = 1
    /\ recvd # <<>>
    /\ ReaderDone

\* the consumer of the channel has stopped receiving before the channel was
\* exhausted: Ping and Reload after their one line, Shutdown always, Stats
\* when it panicked
Abandoned ==
    \/ cmd \in {"Ping", "Reload", "Shutdown"} /\ pc = "returned" /\ ~sawClosed
    \/ pc = "panic"

Released == connState = "closed" /\ closeCount = 1 /\ ReaderDone

\* C2: once the reader is started, the daemon ends its side and the consumer
\* keeps receiving until the channel is exhausted, the reader terminates,
\* the completion signal fires and the connection is closed, exactly once.
C2_EventualRelease ==
    /\ [](ReaderStarted => <>(Released \/ Abandoned))
    /\ [](closeCount <= 1)

\* a caller that drained a two-line reply, and the connection is released
C2_Witness ==
    /\ cmd \in PassThrough
    /\ recvd = << <<"o", "k">>, <<"o", "k">> >>
    /\ sawClosed
    /\ Released

\* C9: what the consumer has received is at every moment a prefix of the
\* newline-terminated lines the daemon wrote, trimmed, in the same order.
C9_FifoDelivery == IsPrefix(recvd, TerminatedLines(written))

\* two different lines were received, the second one trimmed of " \t\r\n"
C9_Witness ==
    /\ Len(recvd) = 2
    /\ recvd[1] = <<"o", "k">>
    /\ recvd[2] = <<"a">>

\* the token Ping and Reload expect
Token(c) == IF c = "Ping" THEN sPONG ELSE sRELOADING

\* Ping or Reload has returned from its receive
ReplyJudged ==
    /\ cmd \in {"Ping", "Reload"}
    /\ pc = "returned"
    /\ result.kind \in {"ok", "invalid"}

\* C3 as stated: Ping (Reload) returns success if and only if the reply the
\* daemon sent before closing is exactly one line and that line is PONG
\* (RELOADING).
C3_ExactlyOneLine ==
    (ReplyJudged /\ remote = "EOF")
        => (result = Success <=> TerminatedLines(written) = <<Token(cmd)>>)

\* C3 amended: Ping (Reload) returns success if and only if the reply
\* sequence yields a first line and that line is PONG (RELOADING), whatever
\* follows it; otherwise it returns an error that contains the text it
\* received, which is the first line, or the empty text when the sequence
\* was exhausted before any line.
C3_FirstLineDecides ==
    ReplyJudged =>
        LET L == TerminatedLines(written)
            text == IF sawClosed THEN <<>> ELSE L[1]
        IN  /\ ~sawClosed => (L # <<>> /\ recvd = <<L[1]>>)
            /\ sawClosed => (recvd = <<>> /\ (rerr = "EOF" => L = <<>>))
            /\ result = Success <=> (~sawClosed /\ L[1] = Token(cmd))
            /\ result # Success =>
                /\ result.kind = "invalid"
                /\ Contains(result.msg, text)
                /\ Len(result.msg) = Len(sInvalid) + Len(text) + 1

\* Ping succeeded on a reply of two lines whose first line is PONG
C3_Witness ==
    /\ cmd = "Ping"
    /\ pc = "returned"
    /\ result = Success
    /\ Len(TerminatedLines(written)) = 2
    /\ remote = "EOF"

\* the index of the last line that starts with prefix p, 0 when none does
LastWith(lines, p) ==
    LET S == {i \in 1..Len(lines) : HasPrefix(lines[i], p)} IN
    IF S = {} THEN 0 ELSE CHOOSE i \in S : \A j \in S : j <= i

\* the last line that starts with p, whole; empty when there is none
WholeLast(lines, p) ==
    IF LastWith(lines, p) = 0 THEN <<>> ELSE lines[LastWith(lines, p)]

\* the text of a line after its first k characters
After(line, k) == SubSeq(line, k + 1, Len(line))

StatsReturned == cmd = "Stats" /\ pc = "returned"

\* C4 as stated: Pools is the text that follows the prefix POOLS in the last
\* POOLS line, spaces trimmed; the other four fields are their last lines,
\* whole; a field without a line is empty.
C4_PoolsAfterPrefix ==
    StatsReturned =>
        /\ stats.Pools =
              TrimSpaces(After(WholeLast(recvd, sPOOLS), Len(sPOOLS)))
        /\ stats.State = WholeLast(recvd, sSTATE)
        /\ stats.Threads = WholeLast(recvd, sTHREADS)
        /\ stats.Queue = WholeLast(recvd, sQUEUE)
        /\ stats.Memstats = WholeLast(recvd, sMEMSTATS)

\* C4 amended: in the record Stats returns, Pools is the text of the last
\* POOLS line after its first six characters (the prefix and the one
\* character that follows it, whatever it is), spaces trimmed; State,
\* Threads, Queue and Memstats are their last lines, whole; END lines and
\* lines of no known prefix change nothing and a field without a line is
\* empty.  The documented reply yields Pools = 2 and the four whole lines.
C4_StatsClassification ==
    StatsReturned =>
        /\ stats.Pools = TrimSpaces(After(WholeLast(recvd, sPOOLS), 6))
        /\ stats.State = WholeLast(recvd, sSTATE)
        /\ stats.Threads = WholeLast(recvd, sTHREADS)
        /\ stats.Queue = WholeLast(recvd, sQUEUE)
        /\ stats.Memstats = WholeLast(recvd, sMEMSTATS)
        /\ recvd = TerminatedLines(StatsExample[1] \o StatsExample[2]
                    \o StatsExample[3] \o StatsExample[4] \o StatsExample[5]
                    \o StatsExample[6])
            => stats = [Pools |-> <<"2">>, State |-> sStateValid,
                        Threads |-> sThreadsLive2, Queue |-> sQueue0,
                        Memstats |-> sMemstatsHeap]

\* Stats returned the record of the documented six-line reply
C4_Witness ==
    /\ StatsReturned
    /\ Len(recvd) = 6
    /\ stats.Pools = <<"2">>
    /\ stats.Memstats = sMemstatsHeap

\* the value of four bytes read as an unsigned big-endian integer
BigEndian(h) == h[1] * 16777216 + h[2] * 65536 + h[3] * 256 + h[4]

IsByte(b) == b \in 0..255

\* lengths at the byte boundaries of the four-byte prefix, up to 2^32 - 1,
\* each as its two 16-bit halves <<hi, lo>>
FrameLengths ==
    {<<0, 1>>, <<0, 255>>, <<0, 256>>, <<0, 65535>>, <<1, 0>>, <<255, 65535>>,
     <<256, 0>>, <<32767, 65535>>, <<32768, 0>>, <<65535, 65535>>}

\* the calls of sendChunk so far: the first write is the command frame,
\* call k made the writes 2k (header) and 2k+1 (data)
NChunks == Cardinality({i \in 1..Len(wlog) : wlog[i].op = "sendChunk"}) \div 2

ChunkWritten(k) == wlog[2 * k].ok /\ wlog[2 * k + 1].ok

\* C5: a sendChunk of n bytes whose writes succeed puts 4+n bytes on the
\* wire: n as a four-byte big-endian integer, then the data unchanged;
\* sendEOF puts the four bytes 00 00 00 00.  The header is right at every
\* byte boundary of the length up to 2^32 - 1.
C5_ChunkFraming ==
    /\ \A k \in 1..NChunks :
        ChunkWritten(k) =>
            LET data == srclog[k].data
                frame == wlog[2 * k].bytes \o wlog[2 * k + 1].bytes
            IN  /\ Len(frame) = 4 + Len(data)
                /\ \A j \in 1..4 : IsByte(frame[j])
                /\ BigEndian(SubSeq(frame, 1, 4)) = Len(data)
                /\ SubSeq(frame, 5, Len(frame)) = data
    /\ \A i \in 1..Len(wlog) :
        wlog[i].op = "sendEOF" => wlog[i].bytes = <<0, 0, 0, 0>>
    /\ \A n \in FrameLengths :
        LET h == ChunkHeaderOf(n[1], n[2]) IN
        /\ Len(h) = 4
        /\ \A j \in 1..4 : IsByte(h[j])
        /\ h[1] * 256 + h[2] = n[1]
        /\ h[3] * 256 + h[4] = n[2]

\* a full chunk of CHUNK_SIZE bytes and the terminator are on the wire
C5_Witness ==
    /\ NChunks >= 1
    /\ ChunkWritten(1)
    /\ Len(wlog[3].bytes) = CHUNK_SIZE
    /\ wlog[Len(wlog)].op = "sendEOF"
    /\ wlog[Len(wlog)].ok

\* ScanStream has left its read loop
LoopDone ==
    /\ cmd = "ScanStream"
    /\ connState # "none"
    /\ pc \notin {"dial", "sendCommand", "read", "sendChunk"}

AllWritesOk == \A i \in 1..Len(wlog) : wlog[i].ok

\* the payloads of the chunks sent, and the bytes the source returned
ChunkPayloads == [k \in 1..NChunks |-> wlog[2 * k + 1].bytes]

SourceReturned == [k \in 1..Len(srclog) |-> srclog[k].data]

\* C6: when the read loop is over and every write succeeded, the chunk
\* payloads sent before the terminator are, in order, all the bytes the
\* source returned, also those of a read that returned bytes together with
\* end-of-source or an error.
C6_ForwardsEveryRead ==
    (LoopDone /\ AllWritesOk)
        => Flatten(ChunkPayloads) = Flatten(SourceReturned)

\* the first failed write of the command frame or of a chunk, 0 if none
FirstUploadFailure ==
    LET F == {i \in 1..Len(wlog) :
                ~wlog[i].ok /\ wlog[i].op \in {"sendCommand", "sendChunk"}}
    IN  IF F = {} THEN 0 ELSE CHOOSE i \in F : \A j \in F : i <= j

\* C7: once the write of the INSTREAM frame or of a chunk has failed,
\* ScanStream has returned that error: it sends no further chunk and no
\* terminator (after a failed header, no more than that chunk's data), and
\* it starts no reader.
C7_AbortOnWriteFailure ==
    (cmd = "ScanStream" /\ FirstUploadFailure # 0) =>
        LET i == FirstUploadFailure IN
        /\ pc = "returned"
        /\ result = IOError("write")
        /\ ~ReaderStarted
        /\ \A j \in (i + 1)..Len(wlog) :
            j = i + 1 /\ i % 2 = 0 /\ wlog[j].op = "sendChunk"

\* the write operations of an upload, in order: sendCommand("INSTREAM"),
\* whole sendChunk calls carrying the reads of the source, and last one
\* sendEOF, which succeeded
OrderedUpload ==
    /\ Len(wlog) = 2 * NChunks + 2
    /\ wlog[1].op = "sendCommand"
    /\ wlog[1].bytes = <<"n", "I", "N", "S", "T", "R", "E", "A", "M", LF>>
    /\ \A k \in 1..NChunks :
        /\ wlog[2 * k].op = "sendChunk"
        /\ wlog[2 * k + 1].op = "sendChunk"
        /\ wlog[2 * k + 1].bytes = srclog[k].data
        /\ wlog[2 * k + 1].bytes # <<>>
    /\ wlog[Len(wlog)].op = "sendEOF"
    /\ wlog[Len(wlog)].bytes = <<0, 0, 0, 0>>
    /\ wlog[Len(wlog)].ok

\* C8: when ScanStream has started the reader, its writes were, in order,
\* the INSTREAM command frame, the data chunks, and exactly one terminator
\* after the last chunk; from then on nothing is written to the socket.
C8_StreamOrder ==
    /\ []((cmd = "ScanStream" /\ ReaderStarted) => OrderedUpload)
    /\ [][(cmd = "ScanStream" /\ ReaderStarted) => wlog' = wlog]_vars

\* the reader runs after an upload of two chunks and the terminator
C8_Witness ==
    /\ cmd = "ScanStream"
    /\ ReaderStarted
    /\ NChunks = 2
    /\ AllWritesOk

\* C10: when the reader's socket read failed in the middle of a reply, the
\* command that interprets the reply returns an error.
C10_ReadFailureReported ==
    (/\ cmd \in {"Stats", "Ping", "Reload"}
     /\ pc = "returned"
     /\ rerr = "error"
     /\ sawClosed
     /\ recvd # <<>>)
        => result.kind \notin {"none", "ok"}

\* C11: a command that returns an error after a successful dial (sendCommand
\* failed in simpleCommand, sendEOF failed in ScanStream) has closed the
\* connection it dialled.
C11_ReleasedOnError ==
    (pc = "returned" /\ result.kind = "write") => connState = "closed"

\* C12: Stats never fails on a reply line: whatever lines it receives, it
\* does not panic, and what it returns is a record with a nil error.
C12_StatsPermissive ==
    cmd = "Stats" =>
        /\ pc # "panic"
        /\ pc = "returned" => result.kind \in {"ok", "dial", "write"}

\* the transport a caller selects by the endpoint it names
SelectedNetwork(a) == IF a = TcpAddress THEN "tcp" ELSE "unix"

\* C13: the connection of a command is dialled on the network the caller
\* selected: TCP for a host:port address, unix for a socket path.
C13_TransportSelected ==
    connState # "none" => network = SelectedNetwork(address)

\* C14: for every command and every number of reply lines, once the daemon
\* has written its reply and closed its side, the reader eventually closes
\* the channel and calls wg.Done, and the connection is then closed.
C14_ReaderStopsOnEOF ==
    (ReaderStarted /\ remote = "EOF") ~> (chClosed /\ Released)

\* C15: every call of sendChunk carries between 1 and CHUNK_SIZE bytes and
\* writes a header other than 00 00 00 00; the only write of the zero-length
\* frame is that of sendEOF.
C15_NoEmptyChunk ==
    /\ pc = "sendChunk" => Len(buf) \in 1..CHUNK_SIZE
    /\ \A k \in 1..NChunks :
        /\ Len(wlog[2 * k + 1].bytes) \in 1..CHUNK_SIZE
        /\ wlog[2 * k].bytes = ChunkHeader(Len(wlog[2 * k + 1].bytes))
        /\ wlog[2 * k].bytes # EOFFrame
    /\ \A i \in 1..Len(wlog) :
        wlog[i].bytes = EOFFrame => wlog[i].op = "sendEOF"

\* chunks of CHUNK_SIZE bytes and of one byte were sent, a read of zero
\* bytes without error followed, and the terminator was written
C15_Witness ==
    /\ NChunks = 2
    /\ Len(wlog[3].bytes) = CHUNK_SIZE
    /\ Len(wlog[5].bytes) = 1
    /\ Len(srclog) = 3
    /\ srclog[3] = [data |-> <<>>, err |-> "nil"]
    /\ wlog[Len(wlog)].op = "sendEOF"

\* a read that ends the loop: an error, end-of-source, or zero bytes
EndsLoop(e) == e.err # "nil" \/ e.data = <<>>

LastRead == srclog[Len(srclog)]

\* C16: a read of zero bytes without error ends the read loop as
\* end-of-source does: every read before the last one returned bytes and no
\* error, the read that ends the loop is the last one, the next write after
\* it is the terminator, the source is not read again, and the loop is left
\* in every execution.
C16_ZeroReadEndsLoop ==
    /\ [](cmd = "ScanStream" =>
            /\ \A k \in 1..(Len(srclog) - 1) : ~EndsLoop(srclog[k])
            /\ LoopDone <=> (srclog # <<>> /\ EndsLoop(LastRead))
            /\ (LoopDone /\ pc # "sendEOF") =>
                    wlog[Len(wlog)].op = "sendEOF")
    /\ [][LoopDone => (srclog' = srclog /\ src' = src)]_vars
    /\ (cmd = "ScanStream" /\ pc = "read") ~> LoopDone

\* after one chunk a read returned zero bytes and no error, the terminator
\* was written and the reader runs
C16_Witness ==
    /\ cmd = "ScanStream"
    /\ Len(srclog) = 2
    /\ srclog[1].data = <<7>>
    /\ srclog[2] = [data |-> <<>>, err |-> "nil"]
    /\ wlog[Len(wlog)].op = "sendEOF"
    /\ ReaderStarted

\* the bytes the reader has taken from the socket
ReaderConsumed == SubSeq(written, 1, Len(written) - Len(sock))

\* the record after the lines have gone through the loop body, in order
RECURSIVE ClassifyAll(_, _)
ClassifyAll(st, lines) ==
    IF lines = <<>> THEN st
    ELSE ClassifyAll(Classify(st, Head(lines)), Tail(lines))

\* C17: Stats returns its record only after the reader has closed the
\* channel on EOF or a read error; it does not return while the channel is
\* open, whatever line it receives, END included; when it returns, every
\* line the reader published has been received and classified.
C17_StatsDrains ==
    /\ []((StatsReturned /\ result = Success) =>
            /\ chClosed
            /\ sawClosed
            /\ rerr \in {"EOF", "error"}
            /\ rpc \in {"wgDone", "exit"}
            /\ recvd = TerminatedLines(ReaderConsumed)
            /\ rerr = "EOF" => recvd = TerminatedLines(written)
            /\ stats = ClassifyAll(EmptyStats, recvd))
    /\ [][(cmd = "Stats" /\ pc = "range" /\ ~chClosed) => pc' # "returned"]_vars

\* Stats returned the record of a reply whose END line is not the last one
C17_Witness ==
    /\ StatsReturned
    /\ result = Success
    /\ recvd = <<sEND, sPools2>>
    /\ stats.Pools = <<"2">>

\* the reader goroutine exists and has not returned
ReaderRunning == rpc \in {"read", "send", "closeCh", "wgDone"}

\* C18: readResponse is called on a connection that has no reader yet, and
\* never again once one was started, so the WaitGroup counts at most one
\* reader; once the reader is started nothing more is written to the
\* connection; a connection serves the one command that dialled it.
C18_OneReaderNoWriteAfter ==
    /\ [](/\ pc = "readResponse" => (~ReaderStarted /\ wg = 0)
          /\ wg \in {0, 1}
          /\ wg = 1 <=> ReaderRunning
          /\ ReaderStarted =>
                (wlog # <<>> /\ \A i \in 1..Len(wlog) :
                    wlog[i].op \in {"sendCommand", "sendChunk", "sendEOF"}))
    /\ [][ReaderStarted =>
            (wlog' = wlog /\ pc' # "readResponse" /\ rpc' # "idle")]_vars
    /\ [][connState # "none" =>
            (cmd' = cmd /\ network' = network /\ pc' # "dial"
             /\ connState' # "none")]_vars

\* a simple command wrote its one frame, started its one reader, and the
\* reader has come and gone
C18_Witness ==
    /\ cmd \in SimpleCommands
    /\ Len(wlog) = 1
    /\ wlog[1].ok
    /\ ReaderDone
    /\ wg = 0
    /\ recvd # <<>>

\* C19: the reader closes the channel once, before it calls wg.Done, and
\* publishes nothing afterwards: the channel is closed exactly when the
\* reader is past its close(ch), it stays closed, no line is received or
\* pending from then on, and whenever conn.Close has been called the channel
\* is closed and no send is pending.
C19_ExhaustionBeforeCompletion ==
    /\ [](/\ chClosed <=> rpc \in {"wgDone", "exit"}
          /\ (ReaderStarted /\ wg = 0) => chClosed
          /\ closeCount > 0 => (chClosed /\ rpc # "send"))
    /\ [][chClosed' # chClosed => (~chClosed /\ rpc = "closeCh")]_vars
    /\ [][chClosed => (chClosed' /\ recvd' = recvd /\ rpc' # "send")]_vars

\* Ping found the channel closed before any line, and the connection has
\* been closed
C19_Witness ==
    /\ cmd = "Ping"
    /\ sawClosed
    /\ recvd = <<>>
    /\ closeCount = 1
    /\ chClosed

\* the lines the reader has put on the channel: those received and the one
\* whose send is pending
Published == recvd \o (IF rpc = "send" THEN <<rline>> ELSE <<>>)

\* what follows the last newline of a byte sequence
RECURSIVE UnterminatedTail(_)
UnterminatedTail(bytes) ==
    LET i == IndexLF(bytes, 1) IN
    IF i = 0 THEN bytes
    ELSE UnterminatedTail(SubSeq(bytes, i + 1, Len(bytes)))

\* C20: every line the reader publishes is text the daemon terminated with
\* a newline; when the reader has stopped on EOF the published lines are
\* exactly the terminated ones and the bytes after the last newline are
\* left unpublished.
C20_TailDropped ==
    /\ IsPrefix(Published, TerminatedLines(written))
    /\ Len(sock) <= Len(written)
    /\ Published = TerminatedLines(ReaderConsumed)
    /\ (rpc \in {"closeCh", "wgDone", "exit"} /\ rerr = "EOF") =>
            /\ recvd = TerminatedLines(written)
            /\ sock = UnterminatedTail(written)

\* the daemon wrote a line and a final text without a newline, then closed;
\* the caller drained the channel and received the one line
C20_Witness ==
    /\ cmd \in PassThrough
    /\ written = <<"o", "k", LF, "t">>
    /\ remote = "EOF"
    /\ sawClosed
    /\ recvd = << <<"o", "k">> >>
    /\ sock = <<"t">>

====
